---- MODULE Spec2Model ----
(***************************************************************************)
(* masarif-app: notification scheduler (App.tsx), tool bridge              *)
(* (services/tools.ts), persistence (services/storage.ts), Agenda          *)
(* (components/Appointments.tsx) and chat dispatcher (ChatBot.tsx).        *)
(*                                                                         *)
(* Every `await` of the source is a suspension point: the part of a        *)
(* handler before an await and the part after it are separate steps, and   *)
(* steps of different handlers interleave.  storageService's delay(ms)     *)
(* stands for the latency of the persistence layer; the synchronous        *)
(* read-modify-write after the delay is one step.                          *)
(***************************************************************************)
EXTENDS Integers, Sequences, FiniteSets, TLC

\* ------------------------------------------------------------------ bounds
\* localStorage is finite: it has room for MaxAppts appointments and
\* MaxExpenses expenses more than it starts with, the setItem of a further
\* one throws
MaxAppts == 1
MaxExpenses == 1
MaxStored == 11      \* expenses of earlier sessions in the store
MaxSessions == 2     \* times the live mode is opened
MaxMsgs == 3         \* messages the live channel delivers
MaxFrames == 1       \* microphone frames counted
MaxClock == 2        \* seconds of the output context's clock
MaxTurns == 2        \* handleSend calls
MaxCalls == 2        \* function calls in one model reply
FireCap == 2         \* history counters saturate here

\* --------------------------------------------------------- program constants
AlertLeadMs == 60000                   \* diff <= 60000
MaxAttempts == 3                       \* for (let i = 0; i < 3; i++)
MinAudioBytes == 100                   \* audioBlob.size < 100
OverdueWindowMs == 60000 * 60          \* diff > -60000 * 60

\* ------------------------------------------------------------------ inputs
Users == {"a@x", "b@x"}
SessionUsers == {"a@x"}
NoUser == "none"
NoAppt == [id |-> 0]
NoResult == [kind |-> "none"]

\* the appointment instant used by addAppointment calls, and the instants at
\* which the clock is observed (61 s / 60 s / 30 s ahead, 45 min / 1 h / 2 h
\* overdue)
DateArgs == {7200000}
TimePoints == {7200000 - 61000, 7200000 - 60000, 7200000 - 30000,
               7200000 + 2700000, 7200000 + 3600000, 7200000 + 7200000}
TitleArgs == {"rdv"}
TypeArgs == {"call"}
\* args.status is an unvalidated string
StatusArgs == {"scheduled", "completed", "cancelled"}

AmountArgs == {10, 20}
ExpDateArgs == {20240101}
CategoryArgs == {"Food"}
DescriptionArgs == {"qahwa"}
BudgetArgs == {3000}
DefaultBudget == 5000
StorageError == "QuotaExceededError"

Min(a, b) == IF a < b THEN a ELSE b

\* ------------------------------------------------------------------- state
VARIABLES
  appointments,   \* localStorage[APPOINTMENTS_KEY]: sequence of Appointment
  expenses,       \* localStorage[EXPENSES_KEY]: sequence of Expense
  budget,         \* localStorage[USERS_KEY]: budget of each registered user
  currentUser,    \* localStorage[CURRENT_USER_KEY]
  nextId,         \* appointment ids handed out (crypto.randomUUID is fresh)
  nextExpId,      \* expense ids handed out
  now,            \* wall clock, ms
  user,           \* App state `user`
  activeAlert,    \* App state `activeAlert`
  checking,       \* checkAppointments calls awaiting getAppointments (by user)
  pendingNotify,  \* updateAppointment({...appt, notified:true}) calls in flight
  upcoming,       \* Agenda cards rendered with Complete/Cancel buttons
  uiWrites,       \* handleStatusChange updateAppointment calls in flight
  toolWrites,     \* tool updateAppointmentStatus: updateAppointment in flight
  expWrites,      \* tool updateExpense: updateExpense in flight
  toolResult,     \* what the last executeExpenseTool call gave its caller
  toolCall,       \* history: that call, and the store it started from
  fired,          \* history: id -> number of checks that fired it
  flips,          \* history: id -> persisted notified false->true transitions
  everNotified,   \* history: ids whose notified=true was persisted by a check
  messages,       \* ChatBot state `messages` after the greeting
  turns,          \* the handleSend calls: locals and position of each
  sent,           \* handleSend calls so far
  isThinking,     \* ChatBot state `isThinking`
  spoken,         \* generateAndPlayAudio calls: <<turn, text>>
  live,           \* the LiveAssistant instances: state, refs and handlers
  opened          \* LiveAssistant mounts so far

storeVars == <<appointments, expenses, budget, currentUser, nextId, nextExpId>>
appVars == <<user, activeAlert, checking, pendingNotify>>
uiVars == <<upcoming, uiWrites>>
toolVars == <<toolWrites, expWrites, toolResult, toolCall>>
histVars == <<fired, flips, everNotified>>

schedVars == <<storeVars, now, appVars, uiVars, toolVars, histVars>>

chatVars == <<messages, turns, sent, isThinking, spoken>>

liveVars == <<live, opened>>

vars == <<schedVars, chatVars, liveVars>>

Ids == 1..MaxAppts
\* ------------------------------------------------------------- persistence
RECURSIVE InsertByDate(_, _)
\* insertion keeping equal dates in their original order (Array.sort is stable)
InsertByDate(sorted, a) ==
  IF sorted = <<>> THEN <<a>>
  ELSE IF Head(sorted).date <= a.date
       THEN <<Head(sorted)>> \o InsertByDate(Tail(sorted), a)
       ELSE <<a>> \o sorted

RECURSIVE SortByDateAsc(_)
SortByDateAsc(s) ==
  IF s = <<>> THEN <<>>
  ELSE InsertByDate(SortByDateAsc(SubSeq(s, 1, Len(s) - 1)), s[Len(s)])

OwnedBy(a, userId) == a.userId = userId

\* a getter that does not filter by owner
getAppointmentsMutant(all, userId) == SortByDateAsc(all)

\* storageService.getAppointments
getAppointments(all, userId) ==
  SortByDateAsc(SelectSeq(all, LAMBDA a : OwnedBy(a, userId)))

\* all.findIndex(a => a.id === id); 0 stands for -1
findIndex(all, id) ==
  IF \E i \in 1..Len(all) : all[i].id = id
  THEN CHOOSE i \in 1..Len(all) :
         all[i].id = id /\ \A j \in 1..(i - 1) : all[j].id # id
  ELSE 0

\* storageService.updateAppointment
updateAppointment(all, appt) ==
  IF findIndex(all, appt.id) # 0
  THEN [all EXCEPT ![findIndex(all, appt.id)] = appt]
  ELSE all

\* a delete that only removes appointments still scheduled
deleteAppointmentMutant(all, id) ==
  SelectSeq(all, LAMBDA a : a.id # id \/ a.status # "scheduled")

\* storageService.deleteAppointment
deleteAppointment(all, id) == SelectSeq(all, LAMBDA a : a.id # id)

\* storageService.addAppointment
addAppointment(all, draft, id) ==
  Append(all, [id |-> id, userId |-> draft.userId, title |-> draft.title,
               date |-> draft.date, type |-> draft.type,
               status |-> "scheduled", notified |-> FALSE])

\* ---------------------------------------------------------------- scheduler
\* diff = apptTime.getTime() - now.getTime()
Diff(appt, t) == appt.date - t

\* the trigger condition of checkAppointments
InAlertWindow(diff) == diff <= AlertLeadMs /\ diff > -OverdueWindowMs

ShouldFire(appt, t) ==
  /\ appt.status = "scheduled"
  /\ ~appt.notified
  /\ InAlertWindow(Diff(appt, t))

SeqRange(s) == {s[i] : i \in 1..Len(s)}

\* history bookkeeping for a write of the appointment list
FlipsAfter(old, new) ==
  [id \in Ids |->
     IF /\ \E a \in SeqRange(old) : a.id = id /\ ~a.notified
        /\ \E a \in SeqRange(new) : a.id = id /\ a.notified
     THEN Min(flips[id] + 1, FireCap)
     ELSE flips[id]]

Save(new) ==
  /\ appointments' = new
  /\ flips' = FlipsAfter(appointments, new)


\* ------------------------------------------------- persistence of expenses
RECURSIVE InsertByDateDesc(_, _)
InsertByDateDesc(sorted, e) ==
  IF sorted = <<>> THEN <<e>>
  ELSE IF Head(sorted).date >= e.date
       THEN <<Head(sorted)>> \o InsertByDateDesc(Tail(sorted), e)
       ELSE <<e>> \o sorted

RECURSIVE SortByDateDesc(_)
SortByDateDesc(s) ==
  IF s = <<>> THEN <<>>
  ELSE InsertByDateDesc(SortByDateDesc(SubSeq(s, 1, Len(s) - 1)), s[Len(s)])

\* storageService.getExpenses
getExpenses(all, userId) ==
  SortByDateDesc(SelectSeq(all, LAMBDA e : OwnedBy(e, userId)))

\* an addExpense that loses the amount
addExpenseMutant(all, draft, id) ==
  Append(all, [id |-> id, userId |-> draft.userId, amount |-> 0,
               category |-> draft.category, description |-> draft.description,
               date |-> draft.date])

\* storageService.addExpense
addExpense(all, draft, id) ==
  Append(all, [id |-> id, userId |-> draft.userId, amount |-> draft.amount,
               category |-> draft.category, description |-> draft.description,
               date |-> draft.date])

\* storageService.updateExpense
updateExpense(all, expense) ==
  IF findIndex(all, expense.id) # 0
  THEN [all EXCEPT ![findIndex(all, expense.id)] = expense]
  ELSE all

\* expenses.slice(0, 10)
ExpenseLimit == 10
Slice(s, n) == SubSeq(s, 1, Min(Len(s), n))

\* all.find(x => x.id === id) over what the storage getter returned
Find(list, id) ==
  IF findIndex(list, id) # 0 THEN <<list[findIndex(list, id)]>> ELSE <<>>

\* ------------------------------------------------------------- tool bridge
ToolNames == {"addExpense", "updateExpense", "setBudget", "getExpenses",
              "requestManualEntry", "addAppointment", "getAppointments",
              "updateAppointmentStatus", "deleteAppointment"}
UnknownNames == {"deleteExpense"}

Result(msg, data) == [kind |-> "result", msg |-> msg, data |-> data]
Error(msg) == [kind |-> "error", msg |-> msg, data |-> <<>>]
Thrown(msg) == [kind |-> "throw", msg |-> msg, data |-> <<>>]

\* a bridge without the catch clause
CatchMutant(outcome) == outcome

\* the catch clause of executeExpenseTool
Catch(outcome) ==
  IF outcome.kind = "throw" THEN Error(outcome.msg) ELSE outcome

\* the record is among what the storage layer holds for this user
Owns(all, u, id) == \E r \in SeqRange(all) : r.id = id /\ r.userId = u

\* executeExpenseTool returns `outcome` (after its catch) to the caller
Return(name, u, id, found, failed, outcome) ==
  /\ toolResult' = Catch(outcome)
  /\ toolCall' = [name |-> name, u |-> u, id |-> id,
                  present |-> IF name = "updateExpense"
                              THEN findIndex(expenses, id) # 0
                              ELSE findIndex(appointments, id) # 0,
                  found |-> found, failed |-> failed,
                  unchanged |-> /\ appointments' = appointments
                                /\ expenses' = expenses
                                /\ budget' = budget]

NoCall == [name |-> "none", u |-> NoUser, id |-> 0, present |-> FALSE,
           found |-> FALSE, failed |-> FALSE, unchanged |-> TRUE]

\* a handleSend call that has not been made yet
NoTurn == [pc |-> "idle", size |-> 0, sends |-> 0, attempt |-> 0,
           lastError |-> "none",
           calls |-> <<>>, responses |-> <<>>, text |-> "",
           firstText |-> "", followText |-> "", followCalls |-> <<>>,
           extra |-> <<>>]

\* a LiveAssistant that has not been mounted yet: the initial values of its
\* state and refs; `inbound` holds its onmessage calls, the fields after
\* `inbound` are history
NoSession ==
  [phase |-> "none", pc |-> "idle", closing |-> FALSE,
   stream |-> "none", inputCtx |-> "none", outputCtx |-> "none",
   processor |-> "none", channel |-> "none", closeQueued |-> FALSE,
   isConnected |-> FALSE, isMuted |-> FALSE, seesMuted |-> FALSE,
   statusMessage |-> "Initializing...",
   nextStartTime |-> 0, sources |-> {}, clock |-> 0, inbound |-> <<>>,
   attempts |-> 0, threw |-> 0, sends |-> 0, sentMuted |-> FALSE,
   sentClosed |-> FALSE, signals |-> 0]

\* the live mode has not been opened
LiveIdle ==
  /\ live = [i \in 1..MaxSessions |-> NoSession]
  /\ opened = 0

Init ==
  /\ LiveIdle
  /\ appointments = <<>>
  /\ expenses = <<>>
  /\ budget = [u \in Users |-> DefaultBudget]
  /\ currentUser = NoUser
  /\ nextId = 0
  /\ nextExpId = 0
  /\ now = 7200000 - 61000
  /\ user = NoUser
  /\ activeAlert = NoAppt
  /\ checking = {}
  /\ pendingNotify = {}
  /\ upcoming = {}
  /\ uiWrites = {}
  /\ toolWrites = {}
  /\ expWrites = {}
  /\ toolResult = NoResult
  /\ toolCall = NoCall
  /\ fired = [id \in Ids |-> 0]
  /\ flips = [id \in Ids |-> 0]
  /\ everNotified = {}
  /\ messages = <<>>
  /\ turns = [t \in 1..MaxTurns |-> NoTurn]
  /\ sent = 0
  /\ isThinking = FALSE
  /\ spoken = {}

\* ------------------------------------------------------- executeExpenseTool
\* Each action is a call, or the part of a call after an await, together
\* with its return; `failed`: localStorage.setItem throws.
\* name === 'addExpense'
ToolAddExpense(u, amount, date, failed) ==
  /\ \E category \in CategoryArgs, description \in DescriptionArgs :
       LET draft == [userId |-> u, amount |-> amount, category |-> category,
                     description |-> description, date |-> date]
           new == addExpense(expenses, draft, nextExpId + 1)
           fails == failed \/ nextExpId >= MaxExpenses
       IN  /\ expenses' = IF fails THEN expenses ELSE new
           /\ nextExpId' = IF fails THEN nextExpId ELSE nextExpId + 1
           /\ UNCHANGED <<appointments, budget, currentUser, nextId, flips>>
           /\ Return("addExpense", u, 0, FALSE, fails,
                     IF fails THEN Thrown(StorageError)
                     ELSE Result("Expense added successfully",
                                 <<new[Len(new)]>>))
  /\ UNCHANGED <<now, appVars, uiVars, toolWrites, expWrites, fired,
                 everNotified>>

\* name === 'updateExpense', up to `await storageService.updateExpense`
ToolUpdateExpenseRead(u, id, amount) ==
  /\ expWrites = {}
  /\ LET existing == Find(getExpenses(expenses, u), id) IN
       IF existing = <<>>
       THEN /\ UNCHANGED expWrites
            /\ UNCHANGED <<storeVars, flips>>
            /\ Return("updateExpense", u, id, Owns(expenses, u, id), FALSE,
                      Error("Expense not found"))
       ELSE /\ expWrites' = {[expense |-> [existing[1] EXCEPT !.amount = amount],
                              found |-> Owns(expenses, u, id)]}
            /\ UNCHANGED <<storeVars, flips, toolResult, toolCall>>
  /\ UNCHANGED <<now, appVars, uiVars, toolWrites, fired, everNotified>>

\* name === 'updateExpense', storageService.updateExpense and the return
ToolUpdateExpenseWrite(w, failed) ==
  /\ w \in expWrites
  /\ expWrites' = expWrites \ {w}
  /\ expenses' = IF failed THEN expenses
                  ELSE updateExpense(expenses, w.expense)
  /\ UNCHANGED <<appointments, budget, currentUser, nextId, nextExpId, flips>>
  /\ Return("updateExpense", w.expense.userId, w.expense.id, w.found,
            failed /\ findIndex(expenses, w.expense.id) # 0,
            IF failed /\ findIndex(expenses, w.expense.id) # 0
            THEN Thrown(StorageError)
            ELSE Result("Expense updated", <<>>))
  /\ UNCHANGED <<now, appVars, uiVars, toolWrites, fired, everNotified>>

\* name === 'setBudget'; storageService.updateUser also rewrites the current
\* user key
ToolSetBudget(u, amount, failed) ==
  /\ budget' = IF failed THEN budget ELSE [budget EXCEPT ![u] = amount]
  /\ currentUser' = IF failed THEN currentUser ELSE u
  /\ UNCHANGED <<appointments, expenses, nextId, nextExpId, flips>>
  /\ Return("setBudget", u, 0, FALSE, failed,
            IF failed THEN Thrown(StorageError)
            ELSE Result("Budget set", <<[email |-> u, budget |-> amount]>>))
  /\ UNCHANGED <<now, appVars, uiVars, toolWrites, expWrites, fired,
                 everNotified>>

\* name === 'getExpenses'
ToolGetExpenses(u) ==
  /\ UNCHANGED <<storeVars, flips>>
  /\ Return("getExpenses", u, 0, FALSE, FALSE,
            Result("expenses", Slice(getExpenses(expenses, u), ExpenseLimit)))
  /\ UNCHANGED <<now, appVars, uiVars, toolWrites, expWrites, fired,
                 everNotified>>

\* name === 'requestManualEntry'
ToolRequestManualEntry(u) ==
  /\ UNCHANGED <<storeVars, flips>>
  /\ Return("requestManualEntry", u, 0, FALSE, FALSE,
            Result("Manual form requested", <<>>))
  /\ UNCHANGED <<now, appVars, uiVars, toolWrites, expWrites, fired,
                 everNotified>>

\* name === 'addAppointment'
ToolAddAppointment(u, date, failed) ==
  /\ \E title \in TitleArgs, type \in TypeArgs :
       LET draft == [userId |-> u, title |-> title, date |-> date,
                     type |-> IF type = "" THEN "reminder" ELSE type]
           new == addAppointment(appointments, draft, nextId + 1)
           fails == failed \/ nextId >= MaxAppts
       IN  /\ Save(IF fails THEN appointments ELSE new)
           /\ nextId' = IF fails THEN nextId ELSE nextId + 1
           /\ UNCHANGED <<expenses, budget, currentUser, nextExpId>>
           /\ Return("addAppointment", u, 0, FALSE, fails,
                     IF fails THEN Thrown(StorageError)
                     ELSE Result("Appointment scheduled", <<new[Len(new)]>>))
  /\ UNCHANGED <<now, appVars, uiVars, toolWrites, expWrites, fired,
                 everNotified>>

\* the redacted summary of getAppointments
Summary(a) == [id |-> a.id, title |-> a.title, time |-> a.date,
               status |-> a.status]

RECURSIVE MapSummary(_)
MapSummary(s) ==
  IF s = <<>> THEN <<>> ELSE <<Summary(Head(s))>> \o MapSummary(Tail(s))

\* name === 'getAppointments'
ToolGetAppointments(u) ==
  /\ UNCHANGED <<storeVars, flips>>
  /\ Return("getAppointments", u, 0, FALSE, FALSE,
            Result("appointments",
                   MapSummary(getAppointments(appointments, u))))
  /\ UNCHANGED <<now, appVars, uiVars, toolWrites, expWrites, fired,
                 everNotified>>

\* name === 'updateAppointmentStatus', up to `await updateAppointment`
ToolUpdateStatusRead(u, id, status) ==
  /\ toolWrites = {}
  /\ LET existing == Find(getAppointments(appointments, u), id) IN
       IF existing = <<>>
       THEN /\ UNCHANGED toolWrites
            /\ UNCHANGED <<storeVars, flips>>
            /\ Return("updateAppointmentStatus", u, id,
                      Owns(appointments, u, id), FALSE,
                      Error("Appointment not found"))
       ELSE /\ toolWrites' = {[appt |-> [existing[1] EXCEPT !.status = status],
                               found |-> Owns(appointments, u, id)]}
            /\ UNCHANGED <<storeVars, flips, toolResult, toolCall>>
  /\ UNCHANGED <<now, appVars, uiVars, expWrites, fired, everNotified>>

\* name === 'updateAppointmentStatus', updateAppointment and the return
ToolUpdateStatusWrite(w, failed) ==
  /\ w \in toolWrites
  /\ toolWrites' = toolWrites \ {w}
  /\ Save(IF failed THEN appointments
          ELSE updateAppointment(appointments, w.appt))
  /\ UNCHANGED <<expenses, budget, currentUser, nextId, nextExpId>>
  /\ Return("updateAppointmentStatus", w.appt.userId, w.appt.id, w.found,
            failed /\ findIndex(appointments, w.appt.id) # 0,
            IF failed /\ findIndex(appointments, w.appt.id) # 0
            THEN Thrown(StorageError)
            ELSE Result("Appointment marked", <<>>))
  /\ UNCHANGED <<now, appVars, uiVars, expWrites, fired, everNotified>>

\* name === 'deleteAppointment'
ToolDeleteAppointment(u, id, failed) ==
  /\ Save(IF failed THEN appointments ELSE deleteAppointment(appointments, id))
  /\ UNCHANGED <<expenses, budget, currentUser, nextId, nextExpId>>
  /\ Return("deleteAppointment", u, id, Owns(appointments, u, id), failed,
            IF failed THEN Thrown(StorageError)
            ELSE Result("Appointment deleted", <<>>))
  /\ UNCHANGED <<now, appVars, uiVars, toolWrites, expWrites, fired,
                 everNotified>>

\* no branch matches the name
ToolUnknown(u, name) ==
  /\ name \notin ToolNames
  /\ UNCHANGED <<storeVars, flips>>
  /\ Return(name, u, 0, FALSE, FALSE, Error("Unknown tool"))
  /\ UNCHANGED <<now, appVars, uiVars, toolWrites, expWrites, fired,
                 everNotified>>

\* ---------------------------------------------------------------- App.tsx
\* Auth.handleSubmit -> storageService.login -> App.handleLogin; the effect on
\* [user] starts the interval and runs one check immediately
handleLogin(u) ==
  /\ user = NoUser
  /\ currentUser' = u
  /\ user' = u
  /\ checking' = checking \cup {u}
  /\ UNCHANGED <<appointments, expenses, budget, nextId, nextExpId, now,
                 activeAlert, pendingNotify, uiVars, toolVars, histVars>>
  /\ UNCHANGED <<chatVars, liveVars>>

\* App.handleLogout; the effect cleanup clears the interval, the Agenda
\* unmounts, calls already in flight run on
handleLogout ==
  /\ user # NoUser
  /\ currentUser' = NoUser
  /\ user' = NoUser
  /\ upcoming' = {}
  /\ UNCHANGED <<appointments, expenses, budget, nextId, nextExpId, now,
                 activeAlert, checking, pendingNotify, uiWrites,
                 toolVars, histVars>>
  /\ UNCHANGED <<chatVars, liveVars>>

\* the page is closed and opened again: localStorage stays, every call in
\* flight and all component state is gone, the mount effect restores the
\* stored user and the effect on [user] runs one check immediately
Restart ==
  /\ user' = currentUser
  /\ checking' = IF currentUser = NoUser THEN {} ELSE {currentUser}
  /\ activeAlert' = NoAppt
  /\ pendingNotify' = {}
  /\ upcoming' = {}
  /\ uiWrites' = {}
  /\ toolWrites' = {}
  /\ expWrites' = {}
  /\ UNCHANGED <<storeVars, now, toolResult, toolCall, histVars>>
  /\ UNCHANGED <<chatVars, liveVars>>

\* setInterval(checkAppointments, 30000): a tick comes 30 s after the check
\* before it, whose calls (100 ms + 50 ms) have returned by then
IntervalTick ==
  /\ user # NoUser
  /\ checking = {}
  /\ pendingNotify = {}
  /\ checking' = checking \cup {user}
  /\ UNCHANGED <<storeVars, now, user, activeAlert, pendingNotify, uiVars,
                 toolVars, histVars>>
  /\ UNCHANGED <<chatVars, liveVars>>

\* the appointments a check fires, in the order forEach visits them
Due(u) == SelectSeq(getAppointments(appointments, u),
                    LAMBDA a : ShouldFire(a, now))

\* checkAppointments after `await getAppointments`: the forEach callbacks run
\* up to their own await of updateAppointment
checkAppointments(u) ==
  /\ u \in checking
  /\ checking' = checking \ {u}
  /\ LET due == Due(u) IN
       /\ activeAlert' = IF due = <<>> THEN activeAlert ELSE due[Len(due)]
       /\ pendingNotify' = pendingNotify \cup
                             {[a EXCEPT !.notified = TRUE] : a \in SeqRange(due)}
       /\ fired' = [id \in Ids |->
                      IF \E a \in SeqRange(due) : a.id = id
                      THEN Min(fired[id] + 1, FireCap) ELSE fired[id]]
  /\ UNCHANGED <<storeVars, now, user, uiVars, toolVars, flips, everNotified>>
  /\ UNCHANGED <<chatVars, liveVars>>

\* storageService.updateAppointment called by the check, after its delay;
\* `failed`: localStorage.setItem throws and the rejection is unhandled
NotifyWrite(p, failed) ==
  /\ p \in pendingNotify
  /\ pendingNotify' = pendingNotify \ {p}
  /\ Save(IF failed THEN appointments ELSE updateAppointment(appointments, p))
  /\ everNotified' = IF ~failed /\ findIndex(appointments, p.id) # 0
                     THEN everNotified \cup {p.id} ELSE everNotified
  /\ UNCHANGED <<expenses, budget, currentUser, nextId, nextExpId, now, user,
                 activeAlert, checking, uiVars, toolVars, fired>>
  /\ UNCHANGED <<chatVars, liveVars>>

\* App.dismissAlert
dismissAlert ==
  /\ activeAlert # NoAppt
  /\ activeAlert' = NoAppt
  /\ UNCHANGED <<storeVars, now, user, checking, pendingNotify, uiVars,
                 toolVars, histVars>>
  /\ UNCHANGED <<chatVars, liveVars>>

\* time passes to the next observed instant
Tick ==
  /\ \E t \in TimePoints :
       /\ t > now
       /\ \A t2 \in TimePoints : t2 > now => t <= t2
       /\ now' = t
  /\ UNCHANGED <<storeVars, appVars, uiVars, toolVars, histVars>>
  /\ UNCHANGED <<chatVars, liveVars>>

\* ------------------------------------------------------- Appointments.tsx
\* the cards of the `upcoming` filter
Upcoming(list, t) ==
  {a \in SeqRange(list) : a.status = "scheduled" /\ a.date > t}

\* loadData (on mount, every 5 s, after a status change or delete) at the
\* moment its getAppointments reads, and the render that follows
loadData ==
  /\ user # NoUser
  /\ upcoming' = Upcoming(getAppointments(appointments, user), now)
  /\ UNCHANGED <<storeVars, now, appVars, uiWrites, toolVars, histVars>>
  /\ UNCHANGED <<chatVars, liveVars>>

\* Complete / Cancel on a rendered card: handleStatusChange up to its await
handleStatusChange(appt, status) ==
  /\ appt \in upcoming
  /\ uiWrites = {}
  /\ uiWrites' = {[appt EXCEPT !.status = status]}
  /\ UNCHANGED <<storeVars, now, appVars, upcoming, toolVars,
                 histVars>>
  /\ UNCHANGED <<chatVars, liveVars>>

\* handleStatusChange after the delay of updateAppointment, then loadData()
StatusChangeWrite(w, failed) ==
  /\ w \in uiWrites
  /\ uiWrites' = uiWrites \ {w}
  /\ Save(IF failed THEN appointments ELSE updateAppointment(appointments, w))
  /\ UNCHANGED <<expenses, budget, currentUser, nextId, nextExpId, now,
                 appVars, upcoming, toolVars, fired, everNotified>>
  /\ UNCHANGED <<chatVars, liveVars>>

\* the bin on a rendered card: handleDelete, then loadData()
handleDelete(appt, failed) ==
  /\ appt \in upcoming
  /\ Save(IF failed THEN appointments
          ELSE deleteAppointment(appointments, appt.id))
  /\ UNCHANGED <<expenses, budget, currentUser, nextId, nextExpId, now,
                 appVars, upcoming, uiWrites, toolVars, fired, everNotified>>
  /\ UNCHANGED <<chatVars, liveVars>>

\* ---------------------------------------------------------- specifications
\* the tools a conversation of the signed-in user runs against appointments
SchedTools ==
  /\ user # NoUser
  /\ UNCHANGED <<chatVars, liveVars>>
  /\ \/ \E date \in DateArgs, failed \in BOOLEAN :
          ToolAddAppointment(user, date, failed)
     \/ \E id \in Ids, status \in StatusArgs :
          ToolUpdateStatusRead(user, id, status)
     \/ \E id \in Ids, failed \in BOOLEAN :
          ToolDeleteAppointment(user, id, failed)

Next ==
  \/ \E u \in SessionUsers : handleLogin(u)
  \/ handleLogout
  \/ Restart
  \/ IntervalTick
  \/ \E u \in SessionUsers : checkAppointments(u)
  \/ \E p \in pendingNotify, failed \in BOOLEAN : NotifyWrite(p, failed)
  \/ dismissAlert
  \/ Tick
  \/ loadData
  \/ \E a \in upcoming, status \in {"completed", "cancelled"} :
       handleStatusChange(a, status)
  \/ \E w \in uiWrites, failed \in BOOLEAN : StatusChangeWrite(w, failed)
  \/ \E a \in upcoming, failed \in BOOLEAN : handleDelete(a, failed)
  \/ SchedTools
  \/ /\ \E w \in toolWrites, failed \in BOOLEAN :
          ToolUpdateStatusWrite(w, failed)
     /\ UNCHANGED <<chatVars, liveVars>>

Spec == Init /\ [][Next]_vars

\* the bridge on its own: any caller, any tool, any arguments, one call after
\* the other as in the loop of handleSend
BridgeIdle == toolWrites = {} /\ expWrites = {}

ToolsCall ==
  /\ BridgeIdle
  /\ UNCHANGED <<chatVars, liveVars>>
  /\ \/ \E u \in Users, amount \in AmountArgs, date \in ExpDateArgs,
           failed \in BOOLEAN : ToolAddExpense(u, amount, date, failed)
     \/ \E u \in Users, id \in 1..(MaxExpenses + 1), amount \in AmountArgs :
          ToolUpdateExpenseRead(u, id, amount)
     \/ \E u \in Users, amount \in BudgetArgs, failed \in BOOLEAN :
          ToolSetBudget(u, amount, failed)
     \/ \E u \in Users : ToolGetExpenses(u)
     \/ \E u \in Users : ToolRequestManualEntry(u)
     \/ \E u \in Users, date \in DateArgs, failed \in BOOLEAN :
          ToolAddAppointment(u, date, failed)
     \/ \E u \in Users : ToolGetAppointments(u)
     \/ \E u \in Users, id \in 1..(MaxAppts + 1), status \in StatusArgs :
          ToolUpdateStatusRead(u, id, status)
     \/ \E u \in Users, id \in 1..(MaxAppts + 1), failed \in BOOLEAN :
          ToolDeleteAppointment(u, id, failed)
     \/ \E u \in Users, name \in UnknownNames : ToolUnknown(u, name)

ToolsNext ==
  \/ ToolsCall
  \/ /\ \E w \in expWrites, failed \in BOOLEAN :
          ToolUpdateExpenseWrite(w, failed)
     /\ UNCHANGED <<chatVars, liveVars>>
  \/ /\ \E w \in toolWrites, failed \in BOOLEAN :
          ToolUpdateStatusWrite(w, failed)
     /\ UNCHANGED <<chatVars, liveVars>>

SpecTools == Init /\ [][ToolsNext]_vars

\* the scheduler on its own: a signed-in session whose stored appointments
\* are in any state the tools and the Agenda can leave them in
StoredAppts ==
  {<<>>} \cup
  {<<[id |-> 1, userId |-> u, title |-> title, date |-> date, type |-> type,
      status |-> status, notified |-> notified]>> :
     u \in Users, title \in TitleArgs, date \in DateArgs, type \in TypeArgs,
     status \in StatusArgs, notified \in BOOLEAN}

InitCheck ==
  /\ LiveIdle
  /\ appointments \in StoredAppts
  /\ expenses = <<>>
  /\ budget = [u \in Users |-> DefaultBudget]
  /\ \E u \in SessionUsers : currentUser = u /\ user = u /\ checking = {u}
  /\ nextId = MaxAppts
  /\ nextExpId = 0
  /\ now \in TimePoints
  /\ activeAlert = NoAppt
  /\ pendingNotify = {}
  /\ upcoming = {}
  /\ uiWrites = {}
  /\ toolWrites = {}
  /\ expWrites = {}
  /\ toolResult = NoResult
  /\ toolCall = NoCall
  /\ fired = [id \in Ids |-> 0]
  /\ flips = [id \in Ids |-> 0]
  /\ everNotified = {}
  /\ messages = <<>>
  /\ turns = [t \in 1..MaxTurns |-> NoTurn]
  /\ sent = 0
  /\ isThinking = FALSE
  /\ spoken = {}

CheckNext ==
  \/ IntervalTick
  \/ \E u \in SessionUsers : checkAppointments(u)
  \/ \E p \in pendingNotify, failed \in BOOLEAN : NotifyWrite(p, failed)
  \/ dismissAlert
  \/ Tick

SpecCheck == InitCheck /\ [][CheckNext]_vars

\* the scheduler over a store of two appointments, the second added after
\* the first (a later id, at the end of the stored list), of either owner
\* and in any state the tools and the Agenda can leave them in
StoredPairs ==
  {<<a[1], [id |-> MaxAppts + 1, userId |-> u, title |-> title, date |-> date,
            type |-> type, status |-> status, notified |-> notified]>> :
     a \in StoredAppts \ {<<>>}, u \in Users, title \in TitleArgs,
     date \in {7200000, 7200000 + 30000}, type \in TypeArgs,
     status \in StatusArgs, notified \in BOOLEAN}

InitDue ==
  /\ LiveIdle
  /\ appointments \in StoredPairs
  /\ expenses = <<>>
  /\ budget = [u \in Users |-> DefaultBudget]
  /\ \E u \in SessionUsers : currentUser = u /\ user = u /\ checking = {u}
  /\ nextId = MaxAppts + 1
  /\ nextExpId = 0
  /\ now \in TimePoints
  /\ activeAlert = NoAppt
  /\ pendingNotify = {}
  /\ upcoming = {}
  /\ uiWrites = {}
  /\ toolWrites = {}
  /\ expWrites = {}
  /\ toolResult = NoResult
  /\ toolCall = NoCall
  /\ fired = [id \in Ids |-> 0]
  /\ flips = [id \in Ids |-> 0]
  /\ everNotified = {}
  /\ messages = <<>>
  /\ turns = [t \in 1..MaxTurns |-> NoTurn]
  /\ sent = 0
  /\ isThinking = FALSE
  /\ spoken = {}

SpecDue == InitDue /\ [][CheckNext]_vars

\* the expense tools over a store that earlier sessions filled: the i-th
\* stored expense has its own id and one of the dates around the draft's
StoredDates == {20240101 - 1, 20240101 + 1}

StoredExpenses ==
  {[i \in 1..n |-> [id |-> -i, userId |-> u, amount |-> 10,
                    category |-> "Food", description |-> "qahwa",
                    date |-> dates[i]]] :
     n \in 0..MaxStored, u \in SessionUsers, dates \in [1..MaxStored -> StoredDates]}

InitRound ==
  /\ LiveIdle
  /\ appointments = <<>>
  /\ expenses \in StoredExpenses
  /\ budget = [u \in Users |-> DefaultBudget]
  /\ currentUser = NoUser
  /\ nextId = 0
  /\ nextExpId = 0
  /\ now = 7200000 - 61000
  /\ user = NoUser
  /\ activeAlert = NoAppt
  /\ checking = {}
  /\ pendingNotify = {}
  /\ upcoming = {}
  /\ uiWrites = {}
  /\ toolWrites = {}
  /\ expWrites = {}
  /\ toolResult = NoResult
  /\ toolCall = NoCall
  /\ fired = [id \in Ids |-> 0]
  /\ flips = [id \in Ids |-> 0]
  /\ everNotified = {}
  /\ messages = <<>>
  /\ turns = [t \in 1..MaxTurns |-> NoTurn]
  /\ sent = 0
  /\ isThinking = FALSE
  /\ spoken = {}

RoundNext ==
  /\ UNCHANGED <<chatVars, liveVars>>
  /\ \/ \E u \in Users, amount \in AmountArgs, date \in ExpDateArgs,
           failed \in BOOLEAN : ToolAddExpense(u, amount, date, failed)
     \/ \E u \in Users : ToolGetExpenses(u)

SpecRound == InitRound /\ [][RoundNext]_vars

\* ------------------------------------------------------------ ChatBot.tsx
\* what the model answers and what the user records
ChatCallNames == {"addExpense", "requestManualEntry"}
TextArgs == {"", "reply"}
FollowTextArgs == {"", "followup"}
AudioSizes == {0, 40, 4000}              \* 0: typed text, no audioBlob
ChatAmounts == {10}
ConfirmText == "Safi tqiyed."
ShortAudio == "Tasjil qsir. 3awd."
FormShown == Result("Form shown", <<>>)

\* result.functionCalls: up to n calls, their ids base+1, base+2, ...
Calls(base, n) ==
  UNION {{[i \in 1..k |-> [id |-> base + i, name |-> f[i]]] :
            f \in [1..k -> ChatCallNames]} : k \in 0..n}

FirstReplies == [text : TextArgs, calls : Calls(0, MaxCalls)]
FollowReplies ==
  [text : FollowTextArgs,
   calls : {<<>>, <<[id |-> MaxCalls + 1, name |-> "addExpense"]>>}]

\* the error the i-th attempt of a transmission throws
ErrorOf(i) == IF i = 1 THEN "error 1" ELSE IF i = 2 THEN "error 2" ELSE "error 3"

\* a retry loop that keeps the first error it met
RememberMutant(lastError, e) == IF lastError = "none" THEN e ELSE lastError

\* lastError = e
Remember(lastError, e) == e

\* a dispatcher that falls back to the text of the original reply
FinalTextMutant(first, follow) == IF follow # "" THEN follow ELSE first

\* responseText = toolResponseResult.text || ''
FinalText(first, follow) == follow

\* a message of the conversation; `turn` tells which handleSend appended it
Msg(t, kind, text, extra) ==
  [turn |-> t, role |-> IF kind = "user" THEN "user" ELSE "model",
   kind |-> kind, text |-> text, extra |-> extra]

\* functionResponses.push({functionResponse: {id: fc.id, name: fc.name, ...}})
Response(fc, result) == [id |-> fc.id, name |-> fc.name, result |-> result]

\* a loop that acknowledges requestManualEntry without the call's id
RECURSIVE RunManualMutant(_, _)
RunManualMutant(calls, responses) ==
  LET k == Len(responses) + 1 IN
    IF k <= Len(calls) /\ calls[k].name = "requestManualEntry"
    THEN RunManualMutant(calls,
           Append(responses, [id |-> 0, name |-> calls[k].name,
                              result |-> FormShown]))
    ELSE responses

\* the for loop over functionCalls from where it stands up to its next await:
\* requestManualEntry calls are acknowledged without leaving the loop
RECURSIVE RunManual(_, _)
RunManual(calls, responses) ==
  LET k == Len(responses) + 1 IN
    IF k <= Len(calls) /\ calls[k].name = "requestManualEntry"
    THEN RunManual(calls, Append(responses, Response(calls[k], FormShown)))
    ELSE responses

\* a dispatcher that never sends the follow-up once the loop is over
AfterLoopMutant(cur, responses) ==
  IF Len(responses) = Len(cur.calls)
  THEN [cur EXCEPT !.responses = responses, !.pc = "waiting"]
  ELSE [cur EXCEPT !.responses = responses, !.pc = "tools",
                   !.attempt = 0, !.lastError = "none"]

\* where handleSend stands once the loop has `responses`: at the next
\* executeExpenseTool, or at the follow-up sendMessageWithRetry
AfterLoop(cur, responses) ==
  IF Len(responses) = Len(cur.calls)
  THEN [cur EXCEPT !.responses = responses, !.pc = "followup",
                   !.sends = @ + 1, !.attempt = 0, !.lastError = "none"]
  ELSE [cur EXCEPT !.responses = responses, !.pc = "tools",
                   !.attempt = 0, !.lastError = "none"]

\* the form messages that stretch of the loop appends
Forms(t, n) == [i \in 1..n |-> Msg(t, "form", "", <<>>)]

\* handleSend up to its first await
handleSend(t, size) ==
  /\ user # NoUser
  /\ t = sent + 1
  /\ t <= MaxTurns
  /\ sent' = t
  /\ IF size = 0
     THEN /\ messages' = Append(messages, Msg(t, "user", "text", <<>>))
          /\ isThinking' = TRUE
          /\ turns' = [turns EXCEPT ![t] =
                         [@ EXCEPT !.pc = "send", !.sends = 1]]
     ELSE /\ turns' = [turns EXCEPT ![t] =
                         [@ EXCEPT !.pc = "encode", !.size = size]]
          /\ UNCHANGED <<messages, isThinking>>
  /\ UNCHANGED <<schedVars, liveVars, spoken>>

\* a length test that lets every recording through
TooShortMutant(size) == FALSE

\* `audioBlob.size < 100`
TooShort(size) == size < MinAudioBytes

\* after `await blobToBase64(audioBlob)`: the user message, then the length
\* test of the recording
Encoded(t) ==
  /\ turns[t].pc = "encode"
  /\ IF TooShort(turns[t].size)
     THEN /\ messages' = messages \o <<Msg(t, "user", "", <<>>),
                                       Msg(t, "error", ShortAudio, <<>>)>>
          /\ isThinking' = FALSE
          /\ turns' = [turns EXCEPT ![t] = [@ EXCEPT !.pc = "failed"]]
     ELSE /\ messages' = Append(messages, Msg(t, "user", "", <<>>))
          /\ isThinking' = TRUE
          /\ turns' = [turns EXCEPT ![t] =
                         [@ EXCEPT !.pc = "send", !.sends = 1]]
  /\ UNCHANGED <<schedVars, liveVars, sent, spoken>>

\* sendMessageWithRetry: sendMessage throws; after the third time the catch
\* of handleSend appends the error
SendThrows(t) ==
  /\ turns[t].pc \in {"send", "followup"}
  /\ LET n == turns[t].attempt + 1
         err == Remember(turns[t].lastError, ErrorOf(n))
     IN  IF n < MaxAttempts
         THEN /\ turns' = [turns EXCEPT ![t] =
                             [@ EXCEPT !.attempt = n, !.lastError = err]]
              /\ UNCHANGED <<messages, isThinking>>
         ELSE /\ turns' = [turns EXCEPT ![t] =
                             [@ EXCEPT !.attempt = n, !.lastError = err,
                                       !.pc = "failed"]]
              /\ messages' = Append(messages, Msg(t, "error", err, <<>>))
              /\ isThinking' = FALSE
  /\ UNCHANGED <<schedVars, liveVars, sent, spoken>>

\* the end of the try block: the reply or the confirmation, read aloud when
\* the user spoke
\* a dispatcher that reads every reply aloud
shouldRespondWithAudioMutant(cur) == TRUE

\* const shouldRespondWithAudio = !!audioBlob
shouldRespondWithAudio(cur) == cur.size > 0

Finish(t, cur, text) ==
  LET said == IF text # "" THEN <<Msg(t, "reply", text, cur.extra)>>
              ELSE IF cur.extra # <<>>
                   THEN <<Msg(t, "confirm", ConfirmText, cur.extra)>>
                   ELSE <<>>
  IN  /\ messages' = messages \o said
      /\ spoken' = IF shouldRespondWithAudio(cur) /\ said # <<>>
                   THEN spoken \cup {<<t, said[1].text>>} ELSE spoken
      /\ turns' = [turns EXCEPT ![t] = [cur EXCEPT !.pc = "done"]]
      /\ isThinking' = FALSE

\* the first sendMessage returns; the loop over its calls starts
ReplyReturns(t, reply) ==
  /\ turns[t].pc = "send"
  /\ LET cur == [turns[t] EXCEPT !.text = reply.text,
                                 !.firstText = reply.text,
                                 !.calls = reply.calls]
         responses == RunManual(reply.calls, <<>>)
     IN  IF reply.calls = <<>>
         THEN Finish(t, cur, reply.text)
         ELSE /\ messages' = messages \o Forms(t, Len(responses))
              /\ turns' = [turns EXCEPT ![t] = AfterLoop(cur, responses)]
              /\ UNCHANGED <<isThinking, spoken>>
  /\ UNCHANGED <<schedVars, liveVars, sent>>

\* executeExpenseTool(fc.name, fc.args, user) for the calls a reply can hold
Execute(name, u) ==
  \/ /\ name = "addExpense"
     /\ \E amount \in ChatAmounts, date \in ExpDateArgs, failed \in BOOLEAN :
          ToolAddExpense(u, amount, date, failed)
  \/ /\ name = "updateExpense"
     /\ \E amount \in ChatAmounts :
          ToolUpdateExpenseRead(u, MaxExpenses + 1, amount)
  \/ /\ name = "setBudget"
     /\ \E amount \in BudgetArgs, failed \in BOOLEAN :
          ToolSetBudget(u, amount, failed)
  \/ /\ name = "addAppointment"
     /\ \E date \in DateArgs, failed \in BOOLEAN :
          ToolAddAppointment(u, date, failed)
  \/ /\ name = "deleteAppointment"
     /\ \E id \in Ids, failed \in BOOLEAN :
          ToolDeleteAppointment(u, id, failed)
  \/ /\ name \in UnknownNames
     /\ ToolUnknown(u, name)

\* `await executeExpenseTool` returns for the call the loop stands at; the
\* loop runs on to its next await
ToolReturns(t) ==
  /\ turns[t].pc = "tools"
  /\ LET cur == turns[t]
         fc == cur.calls[Len(cur.responses) + 1]
     IN  /\ Execute(fc.name, user)
         /\ LET responses == RunManual(cur.calls,
                               Append(cur.responses, Response(fc, toolResult')))
            IN  /\ messages' = messages \o
                     Forms(t, Len(responses) - Len(cur.responses) - 1)
                /\ turns' = [turns EXCEPT ![t] =
                     AfterLoop([cur EXCEPT !.extra =
                                  IF fc.name \in {"addExpense", "addAppointment"}
                                     /\ toolResult'.kind = "result"
                                     /\ toolResult'.data # <<>>
                                  THEN toolResult'.data ELSE @],
                               responses)]
  /\ UNCHANGED <<sent, isThinking, spoken, liveVars>>

\* the follow-up sendMessage returns: its text is the reply, its function
\* calls are not looked at
FollowReturns(t, reply) ==
  /\ turns[t].pc = "followup"
  /\ LET text == FinalText(turns[t].text, reply.text) IN
       Finish(t, [turns[t] EXCEPT !.text = text,
                                  !.followText = reply.text,
                                  !.followCalls = reply.calls],
              text)
  /\ UNCHANGED <<schedVars, liveVars, sent>>

\* the chat of a signed-in user; a send does not wait for the one before it
InitChat ==
  /\ LiveIdle
  /\ appointments = <<>>
  /\ expenses = <<>>
  /\ budget = [u \in Users |-> DefaultBudget]
  /\ \E u \in SessionUsers : currentUser = u /\ user = u
  /\ nextId = 0
  /\ nextExpId = 0
  /\ now = 7200000 - 61000
  /\ activeAlert = NoAppt
  /\ checking = {}
  /\ pendingNotify = {}
  /\ upcoming = {}
  /\ uiWrites = {}
  /\ toolWrites = {}
  /\ expWrites = {}
  /\ toolResult = NoResult
  /\ toolCall = NoCall
  /\ fired = [id \in Ids |-> 0]
  /\ flips = [id \in Ids |-> 0]
  /\ everNotified = {}
  /\ messages = <<>>
  /\ turns = [t \in 1..MaxTurns |-> NoTurn]
  /\ sent = 0
  /\ isThinking = FALSE
  /\ spoken = {}

ChatNext ==
  \/ \E size \in AudioSizes : handleSend(sent + 1, size)
  \/ \E t \in 1..MaxTurns : Encoded(t)
  \/ \E t \in 1..MaxTurns : SendThrows(t)
  \/ \E t \in 1..MaxTurns, reply \in FirstReplies : ReplyReturns(t, reply)
  \/ \E t \in 1..MaxTurns : ToolReturns(t)
  \/ \E t \in 1..MaxTurns, reply \in FollowReplies : FollowReturns(t, reply)

SpecChat == InitChat /\ [][ChatNext]_vars

\* one turn whose reply may call any tool of the dispatcher: the update of
\* an expense names an id the store does not hold
TurnCallNames ==
  {"addExpense", "updateExpense", "setBudget", "addAppointment",
   "deleteAppointment", "requestManualEntry"} \cup UnknownNames

TurnReplies ==
  [text : TextArgs,
   calls : UNION {{[i \in 1..k |-> [id |-> i, name |-> f[i]]] :
                     f \in [1..k -> TurnCallNames]} : k \in 0..MaxCalls}]

TurnNext ==
  \/ \E size \in AudioSizes : handleSend(1, size)
  \/ Encoded(1)
  \/ SendThrows(1)
  \/ \E reply \in TurnReplies : ReplyReturns(1, reply)
  \/ ToolReturns(1)
  \/ \E reply \in FollowReplies : FollowReturns(1, reply)

SpecTurn == InitChat /\ [][TurnNext]_vars

\* the turn when every call it awaits returns or throws in the end: the
\* encoding of the recording, each attempt of a transmission, each tool
TurnContinues ==
  \/ Encoded(1)
  \/ SendThrows(1)
  \/ \E reply \in TurnReplies : ReplyReturns(1, reply)
  \/ ToolReturns(1)
  \/ \E reply \in FollowReplies : FollowReturns(1, reply)

SpecTurnFair == InitChat /\ [][TurnNext]_vars /\ WF_vars(TurnContinues)

\* the turn, and requestManualEntry reaching the bridge (the live session
\* passes every function call to executeExpenseTool)
ManualNext ==
  \/ TurnNext
  \/ /\ ToolRequestManualEntry(user)
     /\ UNCHANGED <<chatVars, liveVars>>

SpecManual == InitChat /\ [][ManualNext]_vars

\* ------------------------------------------------------- LiveAssistant
\* ChatBot renders one LiveAssistant while isLiveMode is set. An instance is
\* a record of its state (isConnected, isMuted, statusMessage), its refs and
\* the position of its connect call; its callbacks are the actions below.
MicError == "Permission denied"
ListeningStatus == "Knasme3 (Listening)..."
RetryStatus == "Error. Retrying..."
FrameDur == 2                          \* audioBuffer.duration, seconds
LiveAmounts == {10}
MsgKinds ==
  {[tool |-> FALSE, audio |-> TRUE, interrupted |-> FALSE],
   [tool |-> FALSE, audio |-> FALSE, interrupted |-> TRUE],
   [tool |-> TRUE, audio |-> TRUE, interrupted |-> FALSE]}

Max(a, b) == IF a > b THEN a ELSE b

\* `Error: ${e.message}`
ErrorStatus(msg) == "Error: " \o msg

\* connect up to `await getUserMedia`; the onaudioprocess closure it will
\* install sees the isMuted of the render that ran the mount effect
connect(s) ==
  [s EXCEPT !.statusMessage = "Connecting to microphone...",
            !.pc = "mic", !.attempts = @ + 1, !.seesMuted = s.isMuted]

\* a catch that does not report the error
RejectedMutant(s, msg) == [s EXCEPT !.pc = "failed"]

\* the catch of connect
Rejected(s, msg) ==
  [s EXCEPT !.pc = "failed", !.statusMessage = ErrorStatus(msg)]

\* setIsLiveMode(true): LiveAssistant mounts and its effect calls connect
OpenLive ==
  /\ user # NoUser
  /\ opened < MaxSessions
  /\ \A i \in 1..MaxSessions : live[i].phase # "mounted"
  /\ opened' = opened + 1
  /\ live' = [live EXCEPT ![opened + 1] =
                connect([NoSession EXCEPT !.phase = "mounted"])]
  /\ UNCHANGED <<schedVars, chatVars>>

\* getUserMedia resolves: connect runs on to `ai.live.connect(...)`, which
\* returns the promise of the session
MicGranted(i) ==
  /\ live[i].pc = "mic"
  /\ live' = [live EXCEPT ![i] =
                [@ EXCEPT !.pc = "done", !.stream = "live",
                          !.inputCtx = "running", !.outputCtx = "running",
                          !.statusMessage = "Connecting to Gemini...",
                          !.channel = "connecting"]]
  /\ UNCHANGED <<schedVars, chatVars, opened>>

\* getUserMedia rejects
MicDenied(i) ==
  /\ live[i].pc = "mic"
  /\ live' = [live EXCEPT ![i] = Rejected(@, MicError)]
  /\ UNCHANGED <<schedVars, chatVars, opened>>

\* callbacks.onopen, then the promise of the session resolves and a close
\* that the cleanup queued on it runs; createMediaStreamSource throws on a
\* closed context
onopen(i) ==
  /\ live[i].channel = "connecting"
  /\ live' = [live EXCEPT ![i] =
                [@ EXCEPT !.isConnected = TRUE,
                          !.statusMessage = ListeningStatus,
                          !.processor = IF live[i].inputCtx = "running"
                                        THEN "connected" ELSE @,
                          !.channel = IF live[i].closeQueued
                                      THEN "closed" ELSE "open"]]
  /\ UNCHANGED <<schedVars, chatVars, opened>>

\* the service ends the channel
ServerCloses(i) ==
  /\ live[i].channel = "open"
  /\ live' = [live EXCEPT ![i] = [@ EXCEPT !.channel = "closed"]]
  /\ UNCHANGED <<schedVars, chatVars, opened>>

\* callbacks.onclose
onclose(i) ==
  /\ live[i].channel = "closed"
  /\ live[i].isConnected
  /\ live' = [live EXCEPT ![i] = [@ EXCEPT !.isConnected = FALSE]]
  /\ UNCHANGED <<schedVars, chatVars, opened>>

\* callbacks.onerror
onerror(i) ==
  /\ live[i].channel = "open"
  /\ live' = [live EXCEPT ![i] = [@ EXCEPT !.statusMessage = RetryStatus]]
  /\ UNCHANGED <<schedVars, chatVars, opened>>

\* the mute button
toggleMute(i) ==
  /\ live[i].phase = "mounted"
  /\ live' = [live EXCEPT ![i] = [@ EXCEPT !.isMuted = ~@]]
  /\ UNCHANGED <<schedVars, chatVars, opened>>

\* processor.onaudioprocess: a captured frame; the session sends it while
\* the channel is open
onaudioprocess(i) ==
  /\ live[i].processor = "connected"
  /\ live[i].inputCtx = "running"
  /\ IF live[i].seesMuted \/ live[i].closing \/ live[i].channel # "open"
     THEN UNCHANGED live
     ELSE live' = [live EXCEPT ![i] =
                     [@ EXCEPT !.sends = Min(@ + 1, MaxFrames),
                               !.sentMuted = @ \/ live[i].isMuted,
                               !.sentClosed = @ \/ live[i].phase # "mounted"]]
  /\ UNCHANGED <<schedVars, chatVars, opened>>

\* the k-th release of the cleanup has something to release
Acquired(s, k) ==
  CASE k = 1 -> s.stream # "none"
    [] k = 2 -> s.processor # "none"
    [] k = 3 -> s.inputCtx # "none"
    [] k = 4 -> s.outputCtx # "none"
    [] OTHER -> FALSE

\* the release `failAt` throws (0: none does); the cleanup has no try
Throws(s, failAt) == failAt # 0 /\ Acquired(s, failAt)

\* the cleanup gets to its k-th release and carries it out
Reached(s, failAt, k) == ~Throws(s, failAt) \/ k < failAt

\* the cleanup of the mount effect
cleanup(s, failAt) ==
  [s EXCEPT !.closing = TRUE,
            !.stream = IF @ # "none" /\ Reached(s, failAt, 1)
                       THEN "stopped" ELSE @,
            !.processor = IF @ # "none" /\ Reached(s, failAt, 2)
                          THEN "disconnected" ELSE @,
            !.inputCtx = IF @ # "none" /\ Reached(s, failAt, 3)
                         THEN "closed" ELSE @,
            !.outputCtx = IF @ # "none" /\ Reached(s, failAt, 4)
                          THEN "closed" ELSE @,
            !.channel = IF @ = "open" /\ Reached(s, failAt, 5)
                        THEN "closed" ELSE @,
            !.closeQueued = @ \/ (s.channel = "connecting"
                                    /\ Reached(s, failAt, 5)),
            !.threw = IF Throws(s, failAt) THEN failAt ELSE 0]

\* onClose / setIsLiveMode(false): LiveAssistant unmounts
closeLive(i, failAt) ==
  /\ live[i].phase = "mounted"
  /\ live' = [live EXCEPT ![i] =
                cleanup([@ EXCEPT !.phase = "unmounted"], failAt)]
  /\ UNCHANGED <<schedVars, chatVars, opened>>

\* an onmessage call: the message, its position, and what became of its
\* audio frame (history: start, at, stopped, late; after: the interruptions
\* handled before the message came)
Handler(m, after) ==
  [tool |-> m.tool, audio |-> m.audio, interrupted |-> m.interrupted,
   pc |-> "entry", start |-> -1, at |-> -1, stopped |-> FALSE,
   late |-> FALSE, after |-> after]

\* `if (msg.serverContent?.interrupted)`
InterruptPart(s, k) ==
  IF s.inbound[k].interrupted
  THEN [s EXCEPT !.inbound = [j \in DOMAIN s.inbound |->
                                IF j = k THEN [s.inbound[j] EXCEPT !.pc = "done"]
                                ELSE IF j \in s.sources
                                     THEN [s.inbound[j] EXCEPT !.stopped = TRUE]
                                     ELSE s.inbound[j]],
                 !.sources = {},
                 !.nextStartTime = 0,
                 !.signals = @ + 1]
  ELSE [s EXCEPT !.inbound[k].pc = "done"]

\* `if (base64Audio)` up to `await decodeAudioData`
AudioPart(s, k) ==
  IF s.inbound[k].audio
  THEN [s EXCEPT !.nextStartTime = Max(@, s.clock),
                 !.inbound[k].pc = "decode"]
  ELSE InterruptPart(s, k)

\* source.start(nextStartTimeRef.current) and what follows it; a start time
\* in the past starts the source at once
Schedule(s, k) ==
  [s EXCEPT !.inbound[k].start = Max(s.nextStartTime, s.clock),
            !.inbound[k].at = s.clock,
            !.inbound[k].late = s.closing,
            !.nextStartTime = @ + FrameDur,
            !.sources = @ \cup {k}]

\* callbacks.onmessage for a message without function calls, or while closing
onmessage(i, m) ==
  /\ live[i].channel = "open"
  /\ Len(live[i].inbound) < MaxMsgs
  /\ live[i].closing \/ ~m.tool
  /\ LET k == Len(live[i].inbound) + 1
         s == [live[i] EXCEPT !.inbound = Append(@, Handler(m, live[i].signals))]
     IN  live' = [live EXCEPT ![i] =
                    IF s.closing THEN [s EXCEPT !.inbound[k].pc = "ignored"]
                    ELSE AudioPart(s, k)]
  /\ UNCHANGED <<schedVars, chatVars, opened>>

\* callbacks.onmessage for a message with a function call, up to
\* `await executeExpenseTool`
onmessageTool(i, m) ==
  /\ live[i].channel = "open"
  /\ Len(live[i].inbound) < MaxMsgs
  /\ ~live[i].closing
  /\ m.tool
  /\ \E amount \in LiveAmounts, date \in ExpDateArgs, failed \in BOOLEAN :
       ToolAddExpense(user, amount, date, failed)
  /\ live' = [live EXCEPT ![i] =
                [@ EXCEPT !.inbound =
                   Append(@, [Handler(m, live[i].signals) EXCEPT !.pc = "tool"])]]
  /\ UNCHANGED <<chatVars, opened>>

\* after `await executeExpenseTool`: sendToolResponse, then the audio
toolReturned(i, k) ==
  /\ k \in DOMAIN live[i].inbound
  /\ live[i].inbound[k].pc = "tool"
  /\ live' = [live EXCEPT ![i] = AudioPart(@, k)]
  /\ UNCHANGED <<schedVars, chatVars, opened>>

\* after `await decodeAudioData`: the frame is scheduled
decoded(i, k) ==
  /\ k \in DOMAIN live[i].inbound
  /\ live[i].inbound[k].pc = "decode"
  /\ live' = [live EXCEPT ![i] = InterruptPart(Schedule(@, k), k)]
  /\ UNCHANGED <<schedVars, chatVars, opened>>

\* the 'ended' listener of a source that played to its end
ended(i, k) ==
  /\ k \in live[i].sources
  /\ live[i].outputCtx = "running"
  /\ live[i].clock >= live[i].inbound[k].start + FrameDur
  /\ live' = [live EXCEPT ![i] = [@ EXCEPT !.sources = @ \ {k}]]
  /\ UNCHANGED <<schedVars, chatVars, opened>>

\* outputCtx.currentTime advances
clockTick(i) ==
  /\ live[i].outputCtx = "running"
  /\ live[i].clock < MaxClock
  /\ live' = [live EXCEPT ![i] = [@ EXCEPT !.clock = @ + 1]]
  /\ UNCHANGED <<schedVars, chatVars, opened>>

\* opening and closing the live mode: connect, the mute button, the
\* microphone frames and the cleanup
LiveNext ==
  \/ OpenLive
  \/ \E i \in 1..MaxSessions : MicGranted(i)
  \/ \E i \in 1..MaxSessions : MicDenied(i)
  \/ \E i \in 1..MaxSessions : onopen(i)
  \/ \E i \in 1..MaxSessions : ServerCloses(i)
  \/ \E i \in 1..MaxSessions : onclose(i)
  \/ \E i \in 1..MaxSessions : onerror(i)
  \/ \E i \in 1..MaxSessions : toggleMute(i)
  \/ \E i \in 1..MaxSessions : onaudioprocess(i)
  \/ \E i \in 1..MaxSessions, failAt \in 0..4 : closeLive(i, failAt)

SpecLive == InitChat /\ [][LiveNext]_vars

\* a session that is open: what the channel delivers, the playback, and the
\* close
OpenSession ==
  [connect([NoSession EXCEPT !.phase = "mounted"])
     EXCEPT !.pc = "done", !.stream = "live", !.inputCtx = "running",
            !.outputCtx = "running", !.channel = "open",
            !.isConnected = TRUE, !.statusMessage = ListeningStatus,
            !.processor = "connected"]

InitPlay ==
  /\ live = [i \in 1..MaxSessions |-> IF i = 1 THEN OpenSession ELSE NoSession]
  /\ opened = 1
  /\ appointments = <<>>
  /\ expenses = <<>>
  /\ budget = [u \in Users |-> DefaultBudget]
  /\ \E u \in SessionUsers : currentUser = u /\ user = u
  /\ nextId = 0
  /\ nextExpId = 0
  /\ now = 7200000 - 61000
  /\ activeAlert = NoAppt
  /\ checking = {}
  /\ pendingNotify = {}
  /\ upcoming = {}
  /\ uiWrites = {}
  /\ toolWrites = {}
  /\ expWrites = {}
  /\ toolResult = NoResult
  /\ toolCall = NoCall
  /\ fired = [id \in Ids |-> 0]
  /\ flips = [id \in Ids |-> 0]
  /\ everNotified = {}
  /\ messages = <<>>
  /\ turns = [t \in 1..MaxTurns |-> NoTurn]
  /\ sent = 0
  /\ isThinking = FALSE
  /\ spoken = {}

PlayNext ==
  \/ \E i \in 1..MaxSessions, m \in MsgKinds : onmessage(i, m)
  \/ \E i \in 1..MaxSessions, m \in MsgKinds : onmessageTool(i, m)
  \/ \E i \in 1..MaxSessions, k \in 1..MaxMsgs : toolReturned(i, k)
  \/ \E i \in 1..MaxSessions, k \in 1..MaxMsgs : decoded(i, k)
  \/ \E i \in 1..MaxSessions, k \in 1..MaxMsgs : ended(i, k)
  \/ \E i \in 1..MaxSessions : clockTick(i)
  \/ \E i \in 1..MaxSessions : onaudioprocess(i)
  \/ \E i \in 1..MaxSessions, failAt \in {0, 3} : closeLive(i, failAt)

SpecPlay == InitPlay /\ [][PlayNext]_vars

\* ------------------------------------------------------------------ claims
\* a check step puts a notified=true write in flight only for an appointment
\* whose persisted status is `scheduled` at that moment
CheckSetsOnlyScheduled ==
  \A p \in pendingNotify' \ pendingNotify :
    \E a \in SeqRange(appointments) :
      a.id = p.id /\ a.status = "scheduled" /\ ~a.notified

\* C1: over any sequence of checks, tool calls and Agenda status changes the
\* persisted `notified` of an appointment goes from false to true at most
\* once, and a check sets it only for an appointment whose persisted status
\* is `scheduled` at the time of the check.
C1_NotifiedOnce ==
  [](\A id \in Ids : flips[id] <= 1) /\ [][CheckSetsOnlyScheduled]_vars

\* C2: once a check has alerted an appointment and persisted notified=true,
\* no later check fires that appointment again.
C2_NeverAlertedAgain ==
  [][\A id \in everNotified : fired'[id] = fired[id]]_vars

\* C3: no two checks both fire an alert for the same appointment.
C3_FiredByOneCheck == \A id \in Ids : fired[id] <= 1

\* the window as the claim words it: at most 60 s ahead, at most one hour past
InWindowInclusive(diff) == diff <= AlertLeadMs /\ diff >= -OverdueWindowMs

\* C4: in a check, an appointment with status scheduled and notified=false is
\* fired if and only if it is at most 60 s ahead and no more than one hour
\* overdue, both bounds included.
C4_FiredIffInWindow ==
  [][\A u \in Users :
       (u \in checking /\ u \notin checking') =>
         \A a \in SeqRange(appointments) :
           (a.userId = u /\ a.status = "scheduled" /\ ~a.notified
              /\ fired[a.id] < FireCap) =>
             ((fired'[a.id] = fired[a.id] + 1)
                <=> InWindowInclusive(Diff(a, now)))]_vars

\* the messages of the given kinds that turn t appended, in history order
TurnMsgs(t, kinds) ==
  SelectSeq(messages, LAMBDA m : m.turn = t /\ m.kind \in kinds)

\* the function calls the model issued in turn t, in any of its replies
AllCalls(t) == SeqRange(turns[t].calls) \cup SeqRange(turns[t].followCalls)

\* the tool results of turn t that carry the call id
Answers(t, id) ==
  {i \in 1..Len(turns[t].responses) : turns[t].responses[i].id = id}

\* C5: when a turn is resolved, every function call the model issued in it,
\* in its first reply or in the reply to the follow-up, has exactly one tool
\* result carrying its call id.
C5_EveryCallAnswered ==
  \A t \in 1..MaxTurns :
    turns[t].pc = "done" =>
      \A c \in AllCalls(t) : Cardinality(Answers(t, c.id)) = 1

\* the results collected so far answer the first calls, in call order
InCallOrder(cur) ==
  /\ Len(cur.responses) <= Len(cur.calls)
  /\ \A i \in 1..Len(cur.responses) :
       /\ cur.responses[i].id = cur.calls[i].id
       /\ cur.responses[i].name = cur.calls[i].name

\* C6: for a reply with N >= 1 function calls, no follow-up is sent while
\* results are missing; when the one follow-up is sent there are exactly N
\* results with the ids of the calls in call order; the reply the turn shows
\* has the text of the follow-up, never the text of the original reply.
C6_AllResultsThenOneFollowUp ==
  \A t \in 1..MaxTurns :
    LET cur == turns[t] IN
      cur.calls # <<>> =>
        /\ InCallOrder(cur)
        /\ cur.pc = "tools" => Len(cur.responses) < Len(cur.calls) /\ cur.sends = 1
        /\ cur.sends = 2 <=> cur.pc \in {"followup", "done"}
                             \/ (cur.pc = "failed"
                                  /\ Len(cur.responses) = Len(cur.calls))
        /\ cur.sends = 2 => Len(cur.responses) = Len(cur.calls)
        /\ cur.pc = "done" =>
             /\ cur.text = cur.followText
             /\ \A i \in 1..Len(TurnMsgs(t, {"reply"})) :
                  /\ TurnMsgs(t, {"reply"})[i].text = cur.followText
                  /\ TurnMsgs(t, {"reply"})[i].text # cur.firstText

\* a turn with two calls, both answered, whose replies both have text
C6_Witness ==
  \E t \in 1..MaxTurns :
    /\ turns[t].pc = "done"
    /\ Len(turns[t].calls) = 2
    /\ Len(turns[t].responses) = 2
    /\ turns[t].firstText = "reply"
    /\ Len(TurnMsgs(t, {"reply"})) = 1
    /\ TurnMsgs(t, {"reply"})[1].text = "followup"

\* C7: a transmission is attempted at most 3 times; a turn whose
\* transmissions all succeed within 3 attempts ends with no error message;
\* a turn ends Failed either on a recording below the minimal size, with no
\* attempt made, or when the 3 attempts of one transmission all fail, and
\* then its one error message is the error of the third attempt.
C7_BoundedRetry ==
  \A t \in 1..MaxTurns :
    LET cur == turns[t]
        errors == TurnMsgs(t, {"error"})
    IN  /\ cur.attempt <= MaxAttempts
        /\ cur.pc # "failed" => errors = <<>> /\ cur.attempt < MaxAttempts
        /\ cur.pc = "failed" =>
             /\ Len(errors) = 1
             /\ IF cur.sends = 0
                THEN /\ cur.size > 0 /\ cur.size < MinAudioBytes
                     /\ cur.attempt = 0
                     /\ errors[1].text = ShortAudio
                ELSE /\ cur.attempt = MaxAttempts
                     /\ errors[1].text = ErrorOf(MaxAttempts)

\* one turn ended normally on a third attempt, another failed on its third
C7_Witness ==
  \E t1, t2 \in 1..MaxTurns :
    /\ turns[t1].pc = "done" /\ turns[t1].attempt = MaxAttempts - 1
    /\ TurnMsgs(t1, {"error"}) = <<>>
    /\ turns[t2].pc = "failed" /\ turns[t2].attempt = MaxAttempts
    /\ TurnMsgs(t2, {"error"}) # <<>>

\* C7 as worded: a turn one of whose transmissions succeeded has no error
\* message, and a turn fails only after 3 failed attempts, showing the last
\* error.
C7_SuccessMeansNoError ==
  \A t \in 1..MaxTurns :
    LET cur == turns[t]
        errors == TurnMsgs(t, {"error"})
    IN  /\ cur.attempt <= MaxAttempts
        /\ (cur.pc \in {"tools", "followup", "done"} \/ cur.sends = 2)
             => errors = <<>>
        /\ cur.pc = "failed" =>
             cur.attempt = MaxAttempts /\ errors[1].text = ErrorOf(MaxAttempts)

\* the replies in the history
Replies == SelectSeq(messages, LAMBDA m : m.kind \in {"reply", "confirm"})

\* C8: the replies in the history are in the order their turns were sent and
\* no turn has two; a resolved turn whose reply has text has its reply in the
\* history.
C8_RepliesInSendOrder ==
  /\ \A i, j \in 1..Len(Replies) :
       i < j => Replies[i].turn < Replies[j].turn
  /\ \A t \in 1..MaxTurns :
       turns[t].pc = "done" /\ turns[t].text # "" =>
         Len(TurnMsgs(t, {"reply"})) = 1

\* C9: a call of the bridge never ends in an exception: when the storage
\* operation fails the result is an error object with the exception's
\* message, and a name outside the nine tools gives the error `Unknown tool`
\* with nothing persisted changed.
C9_NeverThrows ==
  /\ toolResult.kind # "throw"
  /\ toolCall.failed => toolResult = Error(StorageError)
  /\ toolCall.name \notin ToolNames \cup {"none"} =>
       toolResult = Error("Unknown tool") /\ toolCall.unchanged

\* a call whose storage operation failed has returned
C9_Witness ==
  /\ toolCall.failed
  /\ toolCall.name \in {"addExpense", "updateAppointmentStatus"}
  /\ toolResult.kind = "error"

\* C10: updateExpense and updateAppointmentStatus with an id that is no
\* record of the calling user return a not-found error and leave expenses and
\* appointments as they were.
C10_UnknownIdNotFound ==
  (toolCall.name \in {"updateExpense", "updateAppointmentStatus"}
     /\ ~toolCall.found) =>
    /\ toolResult \in {Error("Expense not found"),
                       Error("Appointment not found")}
    /\ toolCall.unchanged

\* an update refused although the store holds a record, of another user
C10_Witness ==
  /\ toolCall.name = "updateAppointmentStatus"
  /\ ~toolCall.found
  /\ appointments # <<>>
  /\ toolResult = Error("Appointment not found")

\* C11: a deleteAppointment call whose storage write goes through returns
\* success and leaves no appointment with the given id, whatever its status
\* was; when no appointment had that id (deleted before, or never created)
\* the stored appointments are exactly as they were.
C11_DeleteIdempotent ==
  (toolCall.name = "deleteAppointment" /\ ~toolCall.failed) =>
    /\ toolResult = Result("Appointment deleted", <<>>)
    /\ findIndex(appointments, toolCall.id) = 0
    /\ ~toolCall.present => toolCall.unchanged

\* a second delete of an id that was created and deleted before
C11_Witness ==
  /\ toolCall.name = "deleteAppointment"
  /\ ~toolCall.failed
  /\ toolCall.id \in 1..nextId
  /\ ~toolCall.present
  /\ toolResult.kind = "result"

\* the records of the store that user B owns
OwnedIn(store, B) == {r \in SeqRange(store) : r.userId = B}

\* the result of the last call names a record that is not the caller's
Leaks ==
  /\ toolResult.kind = "result"
  /\ \E i \in 1..Len(toolResult.data) :
       LET d == toolResult.data[i] IN
         /\ "id" \in DOMAIN d
         /\ \E r \in SeqRange(IF toolCall.name \in {"addExpense", "getExpenses"}
                               THEN expenses ELSE appointments) :
              r.id = d.id /\ r.userId # toolCall.u

\* C13: a tool call made for user A returns none of another user's records
\* and leaves the expenses and appointments of every other user as they were.
C13_Isolated ==
  /\ [](~Leaks)
  /\ [][\A B \in Users :
          B # toolCall'.u =>
            /\ OwnedIn(appointments', B) = OwnedIn(appointments, B)
            /\ OwnedIn(expenses', B) = OwnedIn(expenses, B)]_vars

\* the step is an addExpense call that stores its draft unchanged under a
\* new id and returns the stored record
AddStoresDraft ==
  \A u \in Users, amount \in AmountArgs, date \in ExpDateArgs :
    (ToolAddExpense(u, amount, date, FALSE) /\ toolCall'.failed = FALSE) =>
      /\ toolResult'.kind = "result"
      /\ LET e == toolResult'.data[1] IN
           /\ e.userId = u /\ e.amount = amount /\ e.date = date
           /\ e.category \in CategoryArgs /\ e.description \in DescriptionArgs
           /\ e \in SeqRange(expenses')
           /\ \A o \in SeqRange(expenses) : o.id # e.id
           /\ \A o \in SeqRange(expenses) : o \in SeqRange(expenses')

\* the step is a getExpenses call of the user whose addExpense has just
\* returned the record `toolResult.data[1]`
GetAfterAdd(u) ==
  /\ toolCall.name = "addExpense"
  /\ toolCall.u = u
  /\ toolResult.kind = "result"
  /\ ToolGetExpenses(u)

\* the user's other expenses that getExpenses sorts before the record
Before(u, e) ==
  {o \in OwnedIn(expenses, u) : o.id # e.id /\ o.date >= e.date}

ErrorsOf(t) ==
  {i \in 1..Len(messages) : messages[i].turn = t /\ messages[i].kind = "error"}

\* C20: a turn whose recording is under the minimal size ends Failed as soon
\* as the recording is encoded: nothing is sent to the model (no send, no
\* retry), no tool is executed, and the history holds exactly one error
\* message of the turn, the validation message.
C20_ShortAudioRejected ==
  \A t \in 1..MaxTurns :
    (turns[t].size > 0 /\ turns[t].size < MinAudioBytes) =>
      /\ turns[t].pc \in {"encode", "failed"}
      /\ turns[t].sends = 0
      /\ turns[t].attempt = 0
      /\ turns[t].calls = <<>>
      /\ turns[t].responses = <<>>
      /\ turns[t].pc = "encode" => ErrorsOf(t) = {}
      /\ turns[t].pc = "failed" =>
           /\ Cardinality(ErrorsOf(t)) = 1
           /\ \A i \in ErrorsOf(t) : messages[i].text = ShortAudio

\* a short recording has been rejected while the other turn was talking to
\* the model
C20_Witness ==
  \E t, o \in 1..MaxTurns :
    /\ turns[t].size > 0 /\ turns[t].size < MinAudioBytes
    /\ turns[t].pc = "failed"
    /\ ErrorsOf(t) # {}
    /\ turns[o].sends > 0

\* C14: while the user has the session muted no captured microphone frame is
\* sent on the channel, and muting or unmuting leaves the channel as it is.
C14_MutedSendsNothing ==
  [][\A i \in 1..MaxSessions :
       /\ ~live'[i].sentMuted
       /\ live'[i].isMuted # live[i].isMuted =>
            live'[i].channel = live[i].channel]_vars

\* C16: the close sets the closing flag and carries out every release: the
\* microphone is stopped, the processor disconnected, both contexts closed
\* and the channel closed (or its close queued on the pending session),
\* whatever an earlier release does.
C16_EveryReleaseRuns ==
  [][\A i \in 1..MaxSessions :
       (live[i].phase = "mounted" /\ live'[i].phase = "unmounted") =>
         /\ live'[i].closing
         /\ live[i].stream = "live" => live'[i].stream = "stopped"
         /\ live[i].processor = "connected" =>
              live'[i].processor = "disconnected"
         /\ live[i].inputCtx = "running" => live'[i].inputCtx = "closed"
         /\ live[i].outputCtx = "running" => live'[i].outputCtx = "closed"
         /\ live[i].channel = "open" => live'[i].channel = "closed"
         /\ live[i].channel = "connecting" => live'[i].closeQueued]_vars

\* the session was closed by a cleanup in which nothing threw, and neither
\* its connect nor its channel is still pending
Settled(s) ==
  /\ s.phase = "unmounted"
  /\ s.threw = 0
  /\ s.pc \in {"done", "failed"}
  /\ s.channel # "connecting"

\* C18: at most one session holds the microphone (sessions whose cleanup
\* threw set aside), and a session that is not the most recently opened one,
\* once its connect and its close have run to their end, holds neither the
\* microphone nor an open channel.
C18_OnlyLatestOpen ==
  /\ Cardinality({i \in 1..MaxSessions :
                    live[i].stream = "live" /\ live[i].threw = 0}) <= 1
  /\ \A i \in 1..MaxSessions :
       (i < opened /\ Settled(live[i])) =>
         /\ live[i].stream # "live"
         /\ live[i].channel # "open"

\* C19: a session whose microphone was refused has no channel, no stream
\* and no processor, is not connected and shows the error; no session calls
\* getUserMedia a second time.
C19_MicDeniedNoSession ==
  \A i \in 1..MaxSessions :
    /\ live[i].attempts <= 1
    /\ live[i].pc = "failed" =>
         /\ live[i].channel = "none"
         /\ live[i].stream = "none"
         /\ live[i].processor = "none"
         /\ ~live[i].isConnected
         /\ live[i].statusMessage = ErrorStatus(MicError)

\* the microphone was refused, the user closed the live mode and opened it
\* again, and the second session is open
C19_Witness ==
  \E i \in 1..MaxSessions :
    /\ live[i].pc = "failed"
    /\ live[i].phase = "unmounted"
    /\ i < opened
    /\ live[opened].channel = "open"

\* the k-th message of the session carries the first audio frame received
\* after an interruption was handled
FirstAfterSignal(s, k) ==
  /\ s.inbound[k].audio
  /\ s.inbound[k].after > 0
  /\ \A j \in 1..(k - 1) :
       s.inbound[j].audio => s.inbound[j].after < s.inbound[k].after

\* a step of the session handles an interruption: the frames in the live
\* set are stopped, the set is empty and the cursor is reset
StopsAll(s, t) ==
  t.signals > s.signals =>
    /\ \A k \in s.sources : t.inbound[k].stopped
    /\ t.sources = {}
    /\ t.nextStartTime = 0

\* the k-th message's frame has been scheduled, and none received after it
InOrder(s, k) ==
  /\ s.inbound[k].start # -1
  /\ \A j \in DOMAIN s.inbound : j > k => s.inbound[j].start = -1

\* C15: an interruption stops every frame of the live set, empties the set
\* and resets the cursor, and the first frame received after it, scheduled
\* before any later one, starts at the playback clock of the moment it is
\* scheduled.
C15_InterruptionResets ==
  [][\A i \in 1..MaxSessions :
       /\ StopsAll(live[i], live'[i])
       /\ \A k \in DOMAIN live'[i].inbound :
            (FirstAfterSignal(live'[i], k) /\ InOrder(live'[i], k)) =>
              live'[i].inbound[k].start = live'[i].inbound[k].at]_vars

\* C17: in a session closed by a cleanup in which nothing threw, no frame is
\* scheduled after the close, no microphone frame is sent after it, and
\* the output context, with whatever it was playing, is closed.
C17_NothingAfterClose ==
  \A i \in 1..MaxSessions :
    (live[i].closing /\ live[i].threw = 0) =>
      /\ \A k \in DOMAIN live[i].inbound : ~live[i].inbound[k].late
      /\ ~live[i].sentClosed
      /\ live[i].outputCtx # "running"

\* the tools that change what is stored
MutatingNames ==
  {"addExpense", "updateExpense", "setBudget", "addAppointment",
   "updateAppointmentStatus", "deleteAppointment"}

\* a mutating call of turn t returned a result
Mutated(t) ==
  \E i \in 1..Len(turns[t].responses) :
    /\ turns[t].responses[i].name \in MutatingNames
    /\ turns[t].responses[i].result.kind = "result"

\* C21: a finished turn whose final reply has no text and in which a
\* mutating tool call succeeded has a confirmation message in the history.
C21_NeverSilent ==
  \A t \in 1..MaxTurns :
    (turns[t].pc = "done" /\ turns[t].text = "" /\ Mutated(t)) =>
      \E i \in 1..Len(messages) :
        messages[i].turn = t /\ messages[i].kind = "confirm"

\* the replies and confirmations of turn t in the history
Said(t) ==
  {i \in 1..Len(messages) :
     messages[i].turn = t /\ messages[i].kind \in {"reply", "confirm"}}

\* C22: speech is requested for a turn exactly when the turn carried audio
\* and a reply text (the model's, or the confirmation) was appended for it,
\* and what is spoken is that text; a typed turn never requests speech.
C22_SpeechIffAudioAndText ==
  \A t \in 1..MaxTurns :
    /\ (\E x \in spoken : x[1] = t) <=> (turns[t].size > 0 /\ Said(t) # {})
    /\ \A x \in spoken :
         x[1] = t => \E i \in Said(t) : messages[i].text = x[2]

\* the confirmation of a spoken turn was read aloud
C22_Witness ==
  \E t \in 1..MaxTurns :
    /\ turns[t].size > 0
    /\ turns[t].pc = "done"
    /\ <<t, ConfirmText>> \in spoken

\* the call is one the bridge answers with an error whatever is stored
AlwaysFails(name) == name \in UnknownNames \cup {"updateExpense"}

\* C23: a failing tool call does not end the turn: a turn fails only when a
\* transmission gave up or the recording was too short; once the loop is
\* over every call of the reply has its own answer, in call order, each a
\* result or an {error} object (an {error} for an unknown tool and for a
\* record that is not found), and the follow-up has been sent.
C23_FailingCallDoesNotAbort ==
  \A t \in 1..MaxTurns :
    /\ turns[t].pc = "failed" =>
         \/ turns[t].attempt = MaxAttempts
         \/ turns[t].size > 0 /\ turns[t].size < MinAudioBytes
    /\ InCallOrder(turns[t])
    /\ \A i \in 1..Len(turns[t].responses) :
         /\ turns[t].responses[i].result.kind \in {"result", "error"}
         /\ AlwaysFails(turns[t].calls[i].name) =>
              turns[t].responses[i].result.kind = "error"
    /\ (turns[t].pc \in {"followup", "done"} /\ turns[t].calls # <<>>) =>
         /\ Len(turns[t].responses) = Len(turns[t].calls)
         /\ turns[t].sends = 2

\* the first call of a reply failed in the storage layer, the call after it
\* was carried out, and the turn has finished
C23_Witness ==
  \E t \in 1..MaxTurns :
    /\ turns[t].pc = "done"
    /\ Len(turns[t].responses) = MaxCalls
    /\ turns[t].responses[1].result = Error(StorageError)
    /\ turns[t].responses[MaxCalls].result.kind = "result"
    /\ turns[t].responses[MaxCalls].name \in MutatingNames

\* the form messages of turn t in the history
FormsOf(t) ==
  {i \in 1..Len(messages) : messages[i].turn = t /\ messages[i].kind = "form"}

\* the requestManualEntry calls of turn t that the loop has answered
ManualOf(t) ==
  {i \in 1..Len(turns[t].responses) :
     turns[t].responses[i].name = "requestManualEntry"}

\* nothing has been stored since the session began
StoreUntouched ==
  /\ appointments = <<>>
  /\ expenses = <<>>
  /\ budget = [u \in Users |-> DefaultBudget]
  /\ nextId = 0
  /\ nextExpId = 0

\* C24: the dispatcher answers each requestManualEntry call with the
\* acknowledgment under the call's id and one form message, without calling
\* the bridge; the bridge answers it with an acknowledgment; a turn that
\* calls nothing else, and the bridge call, leave users, expenses and
\* appointments as they were.
C24_ManualEntryStoresNothing ==
  [][/\ \A t \in 1..MaxTurns :
          /\ \A i \in ManualOf(t)' :
               turns'[t].responses[i] =
                 [id |-> turns'[t].calls[i].id, name |-> "requestManualEntry",
                  result |-> Result("Form shown", <<>>)]
          /\ Cardinality(FormsOf(t)') = Cardinality(ManualOf(t)')
     /\ (\A t \in 1..MaxTurns : \A i \in 1..Len(turns'[t].calls) :
           turns'[t].calls[i].name = "requestManualEntry")
          => StoreUntouched'
     /\ turns' # turns => toolCall' = toolCall \/ toolCall'.name # "requestManualEntry"
     /\ ToolRequestManualEntry(user) =>
          /\ storeVars' = storeVars
          /\ toolResult' = Result("Manual form requested", <<>>)]_vars

\* a reply of two requestManualEntry calls was answered and the turn is
\* done, and the bridge was asked for a manual entry as well
C24_Witness ==
  \E t \in 1..MaxTurns :
    /\ turns[t].pc = "done"
    /\ Cardinality(ManualOf(t)) = MaxCalls
    /\ toolCall.name = "requestManualEntry"

\* C25: when several appointments are due in the same check, each of them is
\* surfaced for display and each has notified=true persisted: every
\* appointment whose notified write a check starts is the one the alert
\* modal renders after that check, so none is marked notified unseen.
C25_EachDueShown ==
  [][\A p \in pendingNotify' \ pendingNotify :
       activeAlert' = [p EXCEPT !.notified = FALSE]]_vars

\* C26: the scheduler runs one check at once when a session becomes active
\* and then one per interval; once the session has ended no further check
\* is started for it and no appointment of it is fired or marked notified
\* afterwards.
C26_NothingAfterSessionEnd ==
  [][/\ (user = NoUser /\ user' # NoUser) => user' \in checking'
     /\ user' = NoUser => checking' \subseteq checking
     /\ (user = NoUser /\ user' = NoUser) =>
          /\ fired' = fired
          /\ flips' = flips
          /\ everNotified' = everNotified]_vars

\* C27: after any sequence of tool calls every persisted appointment has
\* status scheduled, completed or cancelled; a record that a call adds is
\* scheduled with notified=false; and a call that changes the status of a
\* stored record sets completed or cancelled.
C27_StatusWellFormed ==
  [][\A a \in SeqRange(appointments') :
       /\ a.status \in {"scheduled", "completed", "cancelled"}
       /\ (\A b \in SeqRange(appointments) : b.id # a.id) =>
            a.status = "scheduled" /\ ~a.notified
       /\ \A b \in SeqRange(appointments) :
            (b.id = a.id /\ b.status # a.status) =>
              a.status \in {"completed", "cancelled"}]_vars

\* C28: inbound audio frames are scheduled one after the other in arrival
\* order: when the frame of a message is scheduled, no earlier message is
\* still waiting for its tool call with its frame unscheduled, and the frame
\* starts no earlier than the end of every frame scheduled before it that
\* was not stopped. (The order in which pending decodes complete is left
\* aside.)
C28_SequentialInArrivalOrder ==
  [][\A i \in 1..MaxSessions : \A k \in DOMAIN live[i].inbound :
       (live[i].inbound[k].start = -1 /\ live'[i].inbound[k].start # -1) =>
         \A j \in 1..(k - 1) :
           /\ ~(live[i].inbound[j].audio /\ live[i].inbound[j].pc = "tool")
           /\ (live[i].inbound[j].start # -1 /\ ~live'[i].inbound[j].stopped) =>
                live'[i].inbound[k].start >=
                  live[i].inbound[j].start + FrameDur]_vars

\* every stored appointment is still stored after the step, the same but
\* for the fields in `free`
KeepsBut(free) ==
  /\ Len(appointments') = Len(appointments)
  /\ \A n \in 1..Len(appointments) :
       \A f \in DOMAIN appointments[n] \ free :
         appointments'[n][f] = appointments[n][f]

\* C29: the write by which a check persists the flag changes nothing of any
\* appointment but `notified`, whatever status update or delete landed since
\* the check read the appointments (so a completed or cancelled appointment
\* is not put back to scheduled), and the write of a status update to
\* completed or cancelled, from the Agenda or from the tool, changes nothing
\* but `status`.
C29_CheckWritesOnlyNotified ==
  [][/\ (pendingNotify' # pendingNotify /\ pendingNotify' \subseteq pendingNotify)
          => KeepsBut({"notified"})
     /\ (uiWrites' # uiWrites /\ uiWrites' \subseteq uiWrites)
          => KeepsBut({"status"})
     /\ (/\ toolWrites' # toolWrites /\ toolWrites' \subseteq toolWrites
         /\ \A w \in toolWrites \ toolWrites' :
              w.appt.status \in {"completed", "cancelled"})
          => KeepsBut({"status"})]_vars

\* the turn is over: Complete or Failed
Ended(t) == turns[t].pc \in {"done", "failed"}

\* C30: every turn that was accepted ends, Complete or Failed, when every
\* call it awaits returns or throws in the end; up to there each
\* transmission is attempted at most MaxAttempts times and at most one tool
\* result is collected for each call; and the step that ends the turn
\* clears the busy indicator.
C30_TurnTerminates ==
  /\ \A t \in 1..MaxTurns : (turns[t].pc # "idle") ~> Ended(t)
  /\ [][\A t \in 1..MaxTurns :
          /\ turns'[t].attempt <= MaxAttempts
          /\ Len(turns'[t].responses) <= Len(turns'[t].calls)
          /\ (~Ended(t) /\ Ended(t)') => ~isThinking']_vars

\* a turn failed at the third attempt of its follow-up, after its two tool
\* calls were executed, and the indicator is off
C30_Witness ==
  \E t \in 1..MaxTurns :
    /\ turns[t].pc = "failed"
    /\ turns[t].attempt = MaxAttempts
    /\ Len(turns[t].responses) = MaxCalls
    /\ \A i \in 1..MaxCalls : turns[t].calls[i].name # "requestManualEntry"
    /\ ~isThinking

====
